---- MODULE Spec2Model ----
(***************************************************************************)
(* Market-structure pipeline of src/analysis/market_structure:             *)
(*   swings.py     SwingDetector      bars -> swing points                 *)
(*   structure.py  StructureAnalyzer  swing points -> trend state          *)
(*   bos.py        BOSDetector        bars + swing points -> BOS events    *)
(*   choch.py      CHoCHDetector      bars + swing points + trend -> CHoCH *)
(* and the event bus of src/data/streaming/event_bus.py.                   *)
(*                                                                         *)
(* Python lists are modelled as sequences; a Python index i (0-based) is   *)
(* position i + 1 of the sequence, and every bar_index kept in a record is *)
(* the 0-based Python index.  Decimal prices are positive integers (the    *)
(* code only compares them).  Timestamps are integers (only compared).     *)
(***************************************************************************)
EXTENDS Integers, Sequences, FiniteSets

VARIABLES
    bars,        \* the List[MarketBar] the caller holds
    swings,      \* the List[SwingPoint]: last result of detect_swings, or the
                 \* list the caller passes to the other three components
    detector,    \* the SwingDetector instance (NoDetector before construction)
    calls,       \* number of detect_swings calls made on the instance; in a
                 \* sequence of break-detector calls, the calls made so far
    outcome,     \* the last call that answered: "none", "constructed",
                 \* "returned", "raised", "point", "bos", "choch", "analyzed",
                 \* "subscribed", "unsubscribed", "published"
                 \* (reset_statistics leaves it)
    use_body,    \* use_body of the BOSDetector / CHoCHDetector instance
    trend_state, \* the trend_state argument of the last detect_choch call
    events,      \* the list last returned by detect_bos or detect_choch
    analyzer,    \* min_swings_for_trend of the StructureAnalyzer instance
    structure,   \* the StructureState last returned by analyze_structure
    bus,         \* the EventBus instance: _subscribers and the two counters
    delivery     \* the last publish call: its event, the callbacks it
                 \* invoked in order, and its return value

vars == <<bars, swings, detector, calls, outcome, use_body, trend_state, events,
          analyzer, structure, bus, delivery>>

\* ------------------------------------------------------------------ bounds
\* longest bar list given to detect_swings
MaxBars == 5
\* largest lookback a SwingDetector is constructed with
MaxLookback == 2
\* calls made one after another (detect_swings on one instance, or the
\* break detectors on one input)
MaxCalls == 2
\* longest bar list given to detect_bos / detect_choch
MaxBreakBars == 4
\* longest swing list given to analyze_structure
MaxStructSwings == 5
\* largest min_swings_for_trend a StructureAnalyzer is constructed with
MaxMinSwings == 3

\* most subscriptions held by the event bus at one time
MaxSubscriptions == 2
\* publish calls made on the event bus
MaxPublishes == 2

\* price levels of the bars scanned for swings, of the bars scanned for
\* breaks, and of the swings given to the structure analyzer
Prices == {1, 2, 3}
TwoPrices == {1, 2}

\* ------------------------------------------------------------- data types
HIGH == "high"
LOW == "low"

\* enum values (swings.py:22-25, structure.py:23-28, bos.py:25-28, choch.py:27-30)
BULLISH == "bullish"
BEARISH == "bearish"
RANGING == "ranging"
UNKNOWN == "unknown"
TrendStates == {BULLISH, BEARISH, RANGING, UNKNOWN}
BULLISH_TO_BEARISH == "bullish_to_bearish"
BEARISH_TO_BULLISH == "bearish_to_bullish"

\* Python None where a record is expected
None == [none |-> TRUE]

NoDetector == [lookback |-> -1, swings_detected |-> 0, highs_detected |-> 0, lows_detected |-> 0]
NoStructure == [trend |-> "none"]

\* MarketBar.__post_init__: low <= close <= high, all prices positive
\* (open is never read by the market-structure code and is left out).
MarketBar(b) ==
    /\ b.low <= b.close
    /\ b.close <= b.high
    /\ b.low > 0 /\ b.high > 0 /\ b.close > 0

\* bars[i] for a Python index i
At(s, i) == s[i + 1]

\* range(a, b) as a set
Range(a, b) == a..(b - 1)

\* ------------------------------------------------------------ swings.py
\* SwingPoint(...): the frozen dataclass built at swings.py:126-133 / 140-147
SwingPoint(ts, price, swing_type, bar_index, lb, strength) ==
    [timestamp |-> ts, price |-> price, swing_type |-> swing_type,
     bar_index |-> bar_index, lookback |-> lb, strength |-> strength]

\* SwingPoint.__post_init__: TRUE when it raises ValueError
PostInitRaises(price, lb, bar_index) ==
    price <= 0 \/ lb < 1 \/ bar_index < 0

\* SwingDetector._validate_bar_sequence: TRUE when it raises ValueError
ValidateRaises(bs) ==
    \E i \in Range(0, Len(bs) - 1) :
        At(bs, i).timestamp_utc >= At(bs, i + 1).timestamp_utc

\* variant of _is_swing_high: a tie on the right disqualifies (>= at swings.py:181)
IsSwingHighStrictRight(bs, index, lb) ==
    LET center_high == At(bs, index).high
    IN /\ \A i \in Range(index - lb, index) : ~(At(bs, i).high >= center_high)
       /\ \A i \in Range(index + 1, index + lb + 1) : ~(At(bs, i).high >= center_high)

\* variant of _is_swing_high: the bars after the swing are not compared
\* (the loop at swings.py:179-182 left out)
IsSwingHighLeftOnly(bs, index, lb) ==
    LET center_high == At(bs, index).high
    IN \A i \in Range(index - lb, index) : ~(At(bs, i).high >= center_high)

\* SwingDetector._is_swing_high
IsSwingHigh(bs, index, lb) ==
    LET center_high == At(bs, index).high
    IN /\ \A i \in Range(index - lb, index) : ~(At(bs, i).high >= center_high)
       /\ \A i \in Range(index + 1, index + lb + 1) : ~(At(bs, i).high > center_high)

\* SwingDetector._is_swing_low
IsSwingLow(bs, index, lb) ==
    LET center_low == At(bs, index).low
    IN /\ \A i \in Range(index - lb, index) : ~(At(bs, i).low <= center_low)
       /\ \A i \in Range(index + 1, index + lb + 1) : ~(At(bs, i).low < center_low)

\* a strength that also counts the neighbours tying the swing price
CalculateStrengthWithTies(bs, index, lb, swing_type) ==
    LET swing_price == IF swing_type = HIGH THEN At(bs, index).high ELSE At(bs, index).low
    IN IF swing_type = HIGH
       THEN Cardinality({i \in Range(index - lb, index + lb + 1) :
                            i # index /\ At(bs, i).high <= swing_price})
       ELSE Cardinality({i \in Range(index - lb, index + lb + 1) :
                            i # index /\ At(bs, i).low >= swing_price})

\* a strength counted over the bars after the swing only
CalculateStrengthRightOnly(bs, index, lb, swing_type) ==
    LET swing_price == IF swing_type = HIGH THEN At(bs, index).high ELSE At(bs, index).low
    IN IF swing_type = HIGH
       THEN Cardinality({i \in Range(index + 1, index + lb + 1) : At(bs, i).high < swing_price})
       ELSE Cardinality({i \in Range(index + 1, index + lb + 1) : At(bs, i).low > swing_price})

\* SwingDetector._calculate_strength
CalculateStrength(bs, index, lb, swing_type) ==
    LET swing_price == IF swing_type = HIGH THEN At(bs, index).high ELSE At(bs, index).low
    IN IF swing_type = HIGH
       THEN Cardinality({i \in Range(index - lb, index + lb + 1) :
                            i # index /\ At(bs, i).high < swing_price})
       ELSE Cardinality({i \in Range(index - lb, index + lb + 1) :
                            i # index /\ At(bs, i).low > swing_price})

\* a loop body that tests the low rule only when the high rule failed
SwingsAtOnePerBar(bs, i, lb) ==
    IF IsSwingHigh(bs, i, lb)
    THEN <<SwingPoint(At(bs, i).timestamp_utc, At(bs, i).high, HIGH, i, lb,
                      CalculateStrength(bs, i, lb, HIGH))>>
    ELSE IF IsSwingLow(bs, i, lb)
    THEN <<SwingPoint(At(bs, i).timestamp_utc, At(bs, i).low, LOW, i, lb,
                      CalculateStrength(bs, i, lb, LOW))>>
    ELSE <<>>

\* the swings appended for bar i by one pass of the loop body (HIGH first)
SwingsAt(bs, i, lb) ==
    (IF IsSwingHigh(bs, i, lb)
     THEN <<SwingPoint(At(bs, i).timestamp_utc, At(bs, i).high, HIGH, i, lb,
                       CalculateStrength(bs, i, lb, HIGH))>>
     ELSE <<>>)
    \o
    (IF IsSwingLow(bs, i, lb)
     THEN <<SwingPoint(At(bs, i).timestamp_utc, At(bs, i).low, LOW, i, lb,
                       CalculateStrength(bs, i, lb, LOW))>>
     ELSE <<>>)

\* variant of the scan: range(lookback, len(bars)), the right window cut at
\* the end of the list, so that unconfirmed bars are evaluated
UnconfirmedHigh(bs, index, lb) ==
    LET center_high == At(bs, index).high
    IN /\ \A i \in Range(index - lb, index) : ~(At(bs, i).high >= center_high)
       /\ \A i \in Range(index + 1, index + lb + 1) :
              i < Len(bs) => ~(At(bs, i).high > center_high)

RECURSIVE SwingLoopToEnd(_, _, _)
SwingLoopToEnd(bs, lb, i) ==
    IF i >= Len(bs) THEN <<>>
    ELSE (IF UnconfirmedHigh(bs, i, lb)
          THEN <<SwingPoint(At(bs, i).timestamp_utc, At(bs, i).high, HIGH, i, lb, 0)>>
          ELSE <<>>)
         \o SwingLoopToEnd(bs, lb, i + 1)

\* for i in range(lookback, len(bars) - lookback): the list built from i on
RECURSIVE SwingLoop(_, _, _)
SwingLoop(bs, lb, i) ==
    IF i >= Len(bs) - lb THEN <<>>
    ELSE SwingsAt(bs, i, lb) \o SwingLoop(bs, lb, i + 1)

\* list.sort(key=lambda s: s.timestamp): a stable sort, as insertion of each
\* element after the last element whose key is not greater
RECURSIVE InsertByTimestamp(_, _)
InsertByTimestamp(sorted, s) ==
    IF sorted = <<>> THEN <<s>>
    ELSE IF sorted[Len(sorted)].timestamp <= s.timestamp THEN Append(sorted, s)
    ELSE Append(InsertByTimestamp(SubSeq(sorted, 1, Len(sorted) - 1), s), sorted[Len(sorted)])

\* a sort with reverse=True: the latest swing first
SortNewestFirst(ss) == [k \in 1..Len(ss) |-> ss[Len(ss) + 1 - k]]

RECURSIVE SortByTimestamp(_)
SortByTimestamp(ss) ==
    IF ss = <<>> THEN <<>>
    ELSE InsertByTimestamp(SortByTimestamp(SubSeq(ss, 1, Len(ss) - 1)), ss[Len(ss)])

Count(ss, swing_type) == Cardinality({k \in DOMAIN ss : ss[k].swing_type = swing_type})

\* variant of detect_swings: the length check (swings.py:119) made before the
\* ordering check (swings.py:112)
DetectSwingsLengthFirst(det, bs) ==
    IF bs = <<>> THEN [raised |-> FALSE, swings |-> <<>>, detector |-> det]
    ELSE IF Len(bs) < (det.lookback * 2) + 1
         THEN [raised |-> FALSE, swings |-> <<>>, detector |-> det]
    ELSE IF ValidateRaises(bs) THEN [raised |-> TRUE, swings |-> <<>>, detector |-> det]
    ELSE [raised |-> FALSE,
          swings |-> SortByTimestamp(SwingLoop(bs, det.lookback, det.lookback)),
          detector |-> det]

\* variant of detect_swings: too few bars raise instead of returning []
DetectSwingsShortRaises(det, bs) ==
    IF bs = <<>> THEN [raised |-> FALSE, swings |-> <<>>, detector |-> det]
    ELSE IF ValidateRaises(bs) \/ Len(bs) < (det.lookback * 2) + 1
         THEN [raised |-> TRUE, swings |-> <<>>, detector |-> det]
    ELSE [raised |-> FALSE,
          swings |-> SortByTimestamp(SwingLoop(bs, det.lookback, det.lookback)),
          detector |-> det]

\* a scan that refuses an empty bar list
DetectSwingsEmptyRaises(det, bs) ==
    IF bs = <<>> THEN [raised |-> TRUE, swings |-> <<>>, detector |-> det]
    ELSE IF ValidateRaises(bs) THEN [raised |-> TRUE, swings |-> <<>>, detector |-> det]
    ELSE IF Len(bs) < (det.lookback * 2) + 1
         THEN [raised |-> FALSE, swings |-> <<>>, detector |-> det]
    ELSE LET found == SwingLoop(bs, det.lookback, det.lookback)
         IN [raised |-> FALSE, swings |-> SortByTimestamp(found),
             detector |-> [det EXCEPT !.swings_detected = @ + Len(found),
                 !.highs_detected = @ + Count(found, HIGH),
                 !.lows_detected = @ + Count(found, LOW)]]

\* a scan that resumes after the swings the instance has counted so far
DetectSwingsResume(det, bs) ==
    IF bs = <<>> THEN [raised |-> FALSE, swings |-> <<>>, detector |-> det]
    ELSE IF ValidateRaises(bs) THEN [raised |-> TRUE, swings |-> <<>>, detector |-> det]
    ELSE IF Len(bs) < (det.lookback * 2) + 1
         THEN [raised |-> FALSE, swings |-> <<>>, detector |-> det]
    ELSE LET found == SwingLoop(bs, det.lookback, det.lookback + det.swings_detected)
         IN [raised |-> FALSE, swings |-> SortByTimestamp(found),
             detector |-> [det EXCEPT !.swings_detected = @ + Len(found),
                 !.highs_detected = @ + Count(found, HIGH),
                 !.lows_detected = @ + Count(found, LOW)]]

\* SwingDetector.detect_swings on instance det: what it returns or that it
\* raised, and the instance after the call (the statistics it incremented)
DetectSwings(det, bs) ==
    IF bs = <<>> THEN [raised |-> FALSE, swings |-> <<>>, detector |-> det]
    ELSE IF ValidateRaises(bs) THEN [raised |-> TRUE, swings |-> <<>>, detector |-> det]
    ELSE IF Len(bs) < (det.lookback * 2) + 1
         THEN [raised |-> FALSE, swings |-> <<>>, detector |-> det]
    ELSE LET found == SwingLoop(bs, det.lookback, det.lookback)
         IN [raised |-> FALSE,
             swings |-> SortByTimestamp(found),
             detector |-> [det EXCEPT
                 !.swings_detected = @ + Len(found),
                 !.highs_detected = @ + Count(found, HIGH),
                 !.lows_detected = @ + Count(found, LOW)]]

\* --------------------------------------------------------------- bos.py
\* [s for s in swings if s.bar_index < i and s.bar_index not in broken_swings]
RelevantSwings(ss, i, broken) ==
    SelectSeq(ss, LAMBDA s : s.bar_index < i /\ ~(s.bar_index \in broken))

\* [s for s in relevant_swings if s.swing_type == t]
OfType(ss, t) == SelectSeq(ss, LAMBDA s : s.swing_type = t)

\* xs[-1]
Last(xs) == xs[Len(xs)]

BOSEvent(direction, broken_swing, break_price, break_bar) ==
    [direction |-> direction, broken_swing |-> broken_swing,
     break_price |-> break_price, break_bar |-> break_bar,
     timestamp |-> break_bar.timestamp_utc]

\* variant of the loop body: the broken swing is not added to broken_swings
\* (bos.py:124 and 142 left out)
BosStepNoMark(bs, ss, ub, i, broken) ==
    LET bar == At(bs, i)
        relevant_swings == RelevantSwings(ss, i, broken)
        recent_highs == OfType(relevant_swings, HIGH)
        recent_lows == OfType(relevant_swings, LOW)
        high_price == IF ub THEN bar.close ELSE bar.high
        low_price == IF ub THEN bar.close ELSE bar.low
        bull == recent_highs # <<>> /\ high_price > Last(recent_highs).price
        bear == recent_lows # <<>> /\ low_price < Last(recent_lows).price
    IN [events |->
            (IF bull THEN <<BOSEvent(BULLISH, Last(recent_highs), high_price, bar)>> ELSE <<>>)
            \o (IF bear THEN <<BOSEvent(BEARISH, Last(recent_lows), low_price, bar)>> ELSE <<>>),
        broken |-> {}]

\* the highest-priced (lowest-priced) swing of a list, the latest among equals
Extreme(ss, sign) ==
    ss[CHOOSE k \in DOMAIN ss :
          \A m \in DOMAIN ss :
              \/ sign * ss[m].price < sign * ss[k].price
              \/ (ss[m].price = ss[k].price /\ m <= k)]

\* variant of the loop body: the reference swing is the highest high (lowest
\* low) among the relevant swings instead of the last one
BosStepExtreme(bs, ss, ub, i, broken) ==
    LET bar == At(bs, i)
        relevant_swings == RelevantSwings(ss, i, broken)
        recent_highs == OfType(relevant_swings, HIGH)
        recent_lows == OfType(relevant_swings, LOW)
        high_price == IF ub THEN bar.close ELSE bar.high
        low_price == IF ub THEN bar.close ELSE bar.low
        bull == recent_highs # <<>> /\ high_price > Extreme(recent_highs, 1).price
        bear == recent_lows # <<>> /\ low_price < Extreme(recent_lows, -1).price
    IN [events |->
            (IF bull THEN <<BOSEvent(BULLISH, Extreme(recent_highs, 1), high_price, bar)>> ELSE <<>>)
            \o (IF bear THEN <<BOSEvent(BEARISH, Extreme(recent_lows, -1), low_price, bar)>> ELSE <<>>),
        broken |->
            (IF bull THEN {Extreme(recent_highs, 1).bar_index} ELSE {})
            \cup (IF bear THEN {Extreme(recent_lows, -1).bar_index} ELSE {})]

\* variant of the loop body: the reference swing is the first of the
\* relevant swings (recent_highs[0], recent_lows[0]) instead of the last
BosStepOldest(bs, ss, ub, i, broken) ==
    LET bar == At(bs, i)
        relevant_swings == RelevantSwings(ss, i, broken)
        recent_highs == OfType(relevant_swings, HIGH)
        recent_lows == OfType(relevant_swings, LOW)
        high_price == IF ub THEN bar.close ELSE bar.high
        low_price == IF ub THEN bar.close ELSE bar.low
        bull == recent_highs # <<>> /\ high_price > recent_highs[1].price
        bear == recent_lows # <<>> /\ low_price < recent_lows[1].price
    IN [events |->
            (IF bull THEN <<BOSEvent(BULLISH, recent_highs[1], high_price, bar)>> ELSE <<>>)
            \o (IF bear THEN <<BOSEvent(BEARISH, recent_lows[1], low_price, bar)>> ELSE <<>>),
        broken |->
            (IF bull THEN {recent_highs[1].bar_index} ELSE {})
            \cup (IF bear THEN {recent_lows[1].bar_index} ELSE {})]

\* variant of the loop body: the bearish check (bos.py:126-143) made before
\* the bullish one (108-124)
BosStepBearishFirst(bs, ss, ub, i, broken) ==
    LET bar == At(bs, i)
        relevant_swings == RelevantSwings(ss, i, broken)
        recent_highs == OfType(relevant_swings, HIGH)
        recent_lows == OfType(relevant_swings, LOW)
        high_price == IF ub THEN bar.close ELSE bar.high
        low_price == IF ub THEN bar.close ELSE bar.low
        bull == recent_highs # <<>> /\ high_price > Last(recent_highs).price
        bear == recent_lows # <<>> /\ low_price < Last(recent_lows).price
    IN [events |->
            (IF bear THEN <<BOSEvent(BEARISH, Last(recent_lows), low_price, bar)>> ELSE <<>>)
            \o (IF bull THEN <<BOSEvent(BULLISH, Last(recent_highs), high_price, bar)>> ELSE <<>>),
        broken |->
            (IF bull THEN {Last(recent_highs).bar_index} ELSE {})
            \cup (IF bear THEN {Last(recent_lows).bar_index} ELSE {})]

\* one pass of the loop body of detect_bos for bar i, given the set of
\* broken bar indices: the events appended and the indices added to the set
BosStep(bs, ss, ub, i, broken) ==
    LET bar == At(bs, i)
        relevant_swings == RelevantSwings(ss, i, broken)
        recent_highs == OfType(relevant_swings, HIGH)
        recent_lows == OfType(relevant_swings, LOW)
        high_price == IF ub THEN bar.close ELSE bar.high
        low_price == IF ub THEN bar.close ELSE bar.low
        bull == recent_highs # <<>> /\ high_price > Last(recent_highs).price
        bear == recent_lows # <<>> /\ low_price < Last(recent_lows).price
    IN [events |->
            (IF bull THEN <<BOSEvent(BULLISH, Last(recent_highs), high_price, bar)>> ELSE <<>>)
            \o (IF bear THEN <<BOSEvent(BEARISH, Last(recent_lows), low_price, bar)>> ELSE <<>>),
        broken |->
            (IF bull THEN {Last(recent_highs).bar_index} ELSE {})
            \cup (IF bear THEN {Last(recent_lows).bar_index} ELSE {})]

\* for i, bar in enumerate(bars): the events appended from bar i on
RECURSIVE BosLoop(_, _, _, _, _)
BosLoop(bs, ss, ub, i, broken) ==
    IF i >= Len(bs) THEN <<>>
    ELSE LET step == BosStep(bs, ss, ub, i, broken)
         IN step.events \o BosLoop(bs, ss, ub, i + 1, broken \cup step.broken)

\* BOSDetector.detect_bos
DetectBos(bs, ss, ub) ==
    IF ss = <<>> \/ Len(bs) < 2 THEN <<>>
    ELSE BosLoop(bs, ss, ub, 0, {})

\* ------------------------------------------------------------- choch.py
CHoCHEvent(choch_type, broken_swing, break_price, break_bar, prior_trend) ==
    [choch_type |-> choch_type, broken_swing |-> broken_swing,
     break_price |-> break_price, break_bar |-> break_bar,
     prior_trend |-> prior_trend, timestamp |-> break_bar.timestamp_utc]

\* variant of the loop body: a break price equal to the swing price breaks it
\* (<= at choch.py:108, >= at choch.py:128)
ChochStepNonStrict(bs, ss, trend, ub, i, broken) ==
    LET bar == At(bs, i)
        relevant_swings == RelevantSwings(ss, i, broken)
        lows == OfType(relevant_swings, LOW)
        highs == OfType(relevant_swings, HIGH)
        low_price == IF ub THEN bar.close ELSE bar.low
        high_price == IF ub THEN bar.close ELSE bar.high
    IN IF trend = BULLISH
       THEN IF lows # <<>> /\ low_price <= Last(lows).price
            THEN [events |-> <<CHoCHEvent(BULLISH_TO_BEARISH, Last(lows), low_price, bar, trend)>>,
                  broken |-> {Last(lows).bar_index}]
            ELSE [events |-> <<>>, broken |-> {}]
       ELSE IF trend = BEARISH
       THEN IF highs # <<>> /\ high_price >= Last(highs).price
            THEN [events |-> <<CHoCHEvent(BEARISH_TO_BULLISH, Last(highs), high_price, bar, trend)>>,
                  broken |-> {Last(highs).bar_index}]
            ELSE [events |-> <<>>, broken |-> {}]
       ELSE [events |-> <<>>, broken |-> {}]

\* variant of the loop body: the break price is the close in both modes
\* (use_body not read at choch.py:106 and 126)
ChochStepCloseOnly(bs, ss, trend, ub, i, broken) ==
    LET bar == At(bs, i)
        relevant_swings == RelevantSwings(ss, i, broken)
        lows == OfType(relevant_swings, LOW)
        highs == OfType(relevant_swings, HIGH)
    IN IF trend = BULLISH
       THEN IF lows # <<>> /\ bar.close < Last(lows).price
            THEN [events |-> <<CHoCHEvent(BULLISH_TO_BEARISH, Last(lows), bar.close, bar, trend)>>,
                  broken |-> {Last(lows).bar_index}]
            ELSE [events |-> <<>>, broken |-> {}]
       ELSE IF trend = BEARISH
       THEN IF highs # <<>> /\ bar.close > Last(highs).price
            THEN [events |-> <<CHoCHEvent(BEARISH_TO_BULLISH, Last(highs), bar.close, bar, trend)>>,
                  broken |-> {Last(highs).bar_index}]
            ELSE [events |-> <<>>, broken |-> {}]
       ELSE [events |-> <<>>, broken |-> {}]

\* one pass of the loop body of detect_choch for bar i
ChochStep(bs, ss, trend, ub, i, broken) ==
    LET bar == At(bs, i)
        relevant_swings == RelevantSwings(ss, i, broken)
        lows == OfType(relevant_swings, LOW)
        highs == OfType(relevant_swings, HIGH)
        low_price == IF ub THEN bar.close ELSE bar.low
        high_price == IF ub THEN bar.close ELSE bar.high
    IN IF trend = BULLISH
       THEN IF lows # <<>> /\ low_price < Last(lows).price
            THEN [events |-> <<CHoCHEvent(BULLISH_TO_BEARISH, Last(lows), low_price, bar, trend)>>,
                  broken |-> {Last(lows).bar_index}]
            ELSE [events |-> <<>>, broken |-> {}]
       ELSE IF trend = BEARISH
       THEN IF highs # <<>> /\ high_price > Last(highs).price
            THEN [events |-> <<CHoCHEvent(BEARISH_TO_BULLISH, Last(highs), high_price, bar, trend)>>,
                  broken |-> {Last(highs).bar_index}]
            ELSE [events |-> <<>>, broken |-> {}]
       ELSE [events |-> <<>>, broken |-> {}]

RECURSIVE ChochLoop(_, _, _, _, _, _)
ChochLoop(bs, ss, trend, ub, i, broken) ==
    IF i >= Len(bs) THEN <<>>
    ELSE LET step == ChochStep(bs, ss, trend, ub, i, broken)
         IN step.events \o ChochLoop(bs, ss, trend, ub, i + 1, broken \cup step.broken)

\* the gate at choch.py:86-87
ChochGate(trend) == trend = RANGING \/ trend = UNKNOWN

\* variant of detect_choch: only UNKNOWN is gated and the loop tells BULLISH
\* from everything else (else in place of elif at choch.py:122)
DetectChochElse(bs, ss, trend, ub) ==
    IF trend = UNKNOWN THEN <<>>
    ELSE ChochLoop(bs, ss, IF trend = BULLISH THEN BULLISH ELSE BEARISH, ub, 0, {})

\* CHoCHDetector.detect_choch
DetectChoch(bs, ss, trend, ub) ==
    IF ChochGate(trend) THEN <<>>
    ELSE ChochLoop(bs, ss, trend, ub, 0, {})

\* --------------------------------------------------------- structure.py
\* variant of the counting loop: no reset on a non-increase (structure.py:104-105
\* left out), which counts every higher high of the list
RECURSIVE HigherHighsNoReset(_, _, _)
HigherHighsNoReset(highs, i, count) ==
    IF i >= Len(highs) THEN count
    ELSE HigherHighsNoReset(highs, i + 1,
             IF At(highs, i).price > At(highs, i - 1).price THEN count + 1 ELSE count)

\* for i in range(1, len(highs)) at structure.py:99-105, from index i on
\* with the counter at count
RECURSIVE HigherHighsLoop(_, _, _)
HigherHighsLoop(highs, i, count) ==
    IF i >= Len(highs) THEN count
    ELSE HigherHighsLoop(highs, i + 1,
             IF At(highs, i).price > At(highs, i - 1).price THEN count + 1 ELSE 0)

\* variant of the counting loop over the lows: no reset on a non-decrease
\* (structure.py:113-114 left out), which counts every lower low of the list
RECURSIVE LowerLowsNoReset(_, _, _)
LowerLowsNoReset(lows, i, count) ==
    IF i >= Len(lows) THEN count
    ELSE LowerLowsNoReset(lows, i + 1,
             IF At(lows, i).price < At(lows, i - 1).price THEN count + 1 ELSE count)

\* for i in range(1, len(lows)) at structure.py:108-114
RECURSIVE LowerLowsLoop(_, _, _)
LowerLowsLoop(lows, i, count) ==
    IF i >= Len(lows) THEN count
    ELSE LowerLowsLoop(lows, i + 1,
             IF At(lows, i).price < At(lows, i - 1).price THEN count + 1 ELSE 0)

\* the trend is withheld only when both kinds are short
DetermineTrendBothShort(min_swings, highs, lows, higher_highs, lower_lows) ==
    IF Len(highs) < min_swings /\ Len(lows) < min_swings THEN UNKNOWN
    ELSE IF /\ higher_highs >= min_swings - 1
            /\ Len(lows) >= 2
            /\ lows[Len(lows)].price > lows[Len(lows) - 1].price
         THEN BULLISH
    ELSE IF /\ lower_lows >= min_swings - 1
            /\ Len(highs) >= 2
            /\ highs[Len(highs)].price < highs[Len(highs) - 1].price
         THEN BEARISH
    ELSE RANGING

\* the bullish pattern accepts a latest low equal to the one before
DetermineTrendEqualLow(min_swings, highs, lows, higher_highs, lower_lows) ==
    IF Len(highs) < min_swings \/ Len(lows) < min_swings THEN UNKNOWN
    ELSE IF /\ higher_highs >= min_swings - 1
            /\ Len(lows) >= 2
            /\ lows[Len(lows)].price >= lows[Len(lows) - 1].price
         THEN BULLISH
    ELSE IF /\ lower_lows >= min_swings - 1
            /\ Len(highs) >= 2
            /\ highs[Len(highs)].price < highs[Len(highs) - 1].price
         THEN BEARISH
    ELSE RANGING

\* the bearish pattern does not ask for a lower high
DetermineTrendNoLowerHigh(min_swings, highs, lows, higher_highs, lower_lows) ==
    IF Len(highs) < min_swings \/ Len(lows) < min_swings THEN UNKNOWN
    ELSE IF /\ higher_highs >= min_swings - 1
            /\ Len(lows) >= 2
            /\ lows[Len(lows)].price > lows[Len(lows) - 1].price
         THEN BULLISH
    ELSE IF lower_lows >= min_swings - 1 THEN BEARISH
    ELSE RANGING

\* the bearish pattern is tried before the bullish one
DetermineTrendBearishFirst(min_swings, highs, lows, higher_highs, lower_lows) ==
    IF Len(highs) < min_swings \/ Len(lows) < min_swings THEN UNKNOWN
    ELSE IF /\ lower_lows >= min_swings - 1
            /\ Len(highs) >= 2
            /\ highs[Len(highs)].price < highs[Len(highs) - 1].price
         THEN BEARISH
    ELSE IF /\ higher_highs >= min_swings - 1
            /\ Len(lows) >= 2
            /\ lows[Len(lows)].price > lows[Len(lows) - 1].price
         THEN BULLISH
    ELSE RANGING

\* StructureAnalyzer._determine_trend
DetermineTrend(min_swings, highs, lows, higher_highs, lower_lows) ==
    IF Len(highs) < min_swings \/ Len(lows) < min_swings THEN UNKNOWN
    ELSE IF /\ higher_highs >= min_swings - 1
            /\ Len(lows) >= 2
            /\ lows[Len(lows)].price > lows[Len(lows) - 1].price
         THEN BULLISH
    ELSE IF /\ lower_lows >= min_swings - 1
            /\ Len(highs) >= 2
            /\ highs[Len(highs)].price < highs[Len(highs) - 1].price
         THEN BEARISH
    ELSE RANGING

StructureState(trend, last_swing_high, last_swing_low, higher_highs, lower_lows, ts) ==
    [trend |-> trend, last_swing_high |-> last_swing_high,
     last_swing_low |-> last_swing_low, higher_highs |-> higher_highs,
     lower_lows |-> lower_lows, timestamp |-> ts]

\* StructureAnalyzer.analyze_structure
AnalyzeStructure(min_swings, ss) ==
    IF ss = <<>> THEN StructureState(UNKNOWN, None, None, 0, 0, None)
    ELSE LET highs == OfType(ss, HIGH)
             lows == OfType(ss, LOW)
             higher_highs_count == IF Len(highs) >= 2 THEN HigherHighsLoop(highs, 1, 0) ELSE 0
             lower_lows_count == IF Len(lows) >= 2 THEN LowerLowsLoop(lows, 1, 0) ELSE 0
         IN StructureState(
                DetermineTrend(min_swings, highs, lows, higher_highs_count, lower_lows_count),
                IF highs # <<>> THEN Last(highs) ELSE None,
                IF lows # <<>> THEN Last(lows) ELSE None,
                higher_highs_count, lower_lows_count, Last(ss).timestamp)

\* ----------------------------------------------------- inputs of the calls
\* bar values over price levels P (MarketBar's invariants hold)
BarShapes(P) == {b \in [high : P, low : P, close : P] : MarketBar(b)}

\* close is not read by swing detection: one close per (low, high)
SwingShapes(P) == {b \in BarShapes(P) : b.close = b.low}

\* bars that traded at one price
FlatShapes(P) == {b \in BarShapes(P) : b.low = b.high}

\* timestamp sequences of length n: in order, with one duplicate, or with one
\* adjacent pair out of order
InOrder(n) == [i \in 1..n |-> 2 * i]
OneDefect(n) ==
    {[InOrder(n) EXCEPT ![k + 1] = 2 * k] : k \in 1..(n - 1)}
    \cup {[InOrder(n) EXCEPT ![k + 1] = 2 * k - 1] : k \in 1..(n - 1)}

WithTimestamps(shapes, ts) ==
    [i \in DOMAIN shapes |->
        [timestamp_utc |-> ts[i], high |-> shapes[i].high,
         low |-> shapes[i].low, close |-> shapes[i].close]]

\* the swing list that marks the (bar index, kind) pairs in marks on bars bs,
\* in bar order and HIGH before LOW, each swing priced and stamped by its bar
RECURSIVE MarkedSwings(_, _, _)
MarkedSwings(bs, marks, i) ==
    IF i >= Len(bs) THEN <<>>
    ELSE (IF <<i, HIGH>> \in marks
          THEN <<SwingPoint(At(bs, i).timestamp_utc, At(bs, i).high, HIGH, i, 1, 0)>>
          ELSE <<>>)
         \o (IF <<i, LOW>> \in marks
             THEN <<SwingPoint(At(bs, i).timestamp_utc, At(bs, i).low, LOW, i, 1, 0)>>
             ELSE <<>>)
         \o MarkedSwings(bs, marks, i + 1)

\* a swing list from (kind, price) pairs, one bar apart
ListedSwings(kp) ==
    [k \in DOMAIN kp |-> SwingPoint(2 * k, kp[k].price, kp[k].swing_type, k - 1, 1, 0)]

\* ------------------------------------------------- specification: swings
\* the components not in use
\* ------------------------------------------------------------ event bus
\* event_bus.py: EventType; the types the modelled callers publish and
\* subscribe to are drawn from PublishedTypes
NEW_BAR == "new_bar"
NEW_TICK == "new_tick"
BAR_UPDATE == "bar_update"
CONNECTION_STATUS == "connection_status"
EventType == {NEW_BAR, NEW_TICK, BAR_UPDATE, CONNECTION_STATUS}
PublishedTypes == {NEW_BAR, NEW_TICK}

\* account ids: plain ints, nowhere validated; -1 is also the key under which
\* subscribe files the subscribers for all accounts
AllAccountsKey == -1
Accounts == {-1, 0, 123}

\* an Optional[int] argument: None, or Some(v) for the int v
Some(v) == [none |-> FALSE, value |-> v]
OptionalAccounts == {None} \cup {Some(a) : a \in Accounts}

\* the callbacks handed to subscribe: recorder returns normally,
\* bad_handler raises RuntimeError
Callbacks == {"recorder", "bad_handler"}
Raises(callback) == callback = "bad_handler"

\* MarketEvent, reduced to the two fields publish reads
MarketEvent(event_type, account_id) == [event_type |-> event_type, account_id |-> account_id]

\* a Python dict is a function whose DOMAIN is the set of keys present
EmptyDict == [k \in {} |-> 0]
Put(d, k, v) == [x \in DOMAIN d \cup {k} |-> IF x = k THEN v ELSE d[x]]
Get(d, k, default) == IF k \in DOMAIN d THEN d[k] ELSE default
Del(d, k) == [x \in DOMAIN d \ {k} |-> d[x]]

\* EventBus.__init__
NewBus == [subscribers |-> EmptyDict, events_published |-> 0, events_delivered |-> 0]
NoDelivery == [returned |-> -1]

\* EventBus.subscribe: the bus after the call
Subscribe(b, event_type, callback, account_id) ==
    LET created == IF event_type \in DOMAIN b.subscribers
                   THEN b.subscribers
                   ELSE Put(b.subscribers, event_type, EmptyDict)
        key == IF account_id # None THEN account_id.value ELSE AllAccountsKey
        for_type == IF key \in DOMAIN created[event_type]
                    THEN created[event_type]
                    ELSE Put(created[event_type], key, <<>>)
        appended == Put(for_type, key, Append(for_type[key], callback))
    IN [b EXCEPT !.subscribers = Put(created, event_type, appended)]

\* the loop of publish: the number of callbacks of the list that return
\* normally (each callback of the list is invoked, raising or not)
RECURSIVE Delivered(_)
Delivered(callbacks) ==
    IF callbacks = <<>> THEN 0
    ELSE (IF Raises(Head(callbacks)) THEN 0 ELSE 1) + Delivered(Tail(callbacks))

\* EventBus.publish: the bus after the call, the callbacks invoked in order,
\* and the return value
Publish(b, event) ==
    LET counted == [b EXCEPT !.events_published = @ + 1]
    IN IF event.event_type \notin DOMAIN b.subscribers
       THEN [bus |-> counted, invoked |-> <<>>, returned |-> 0]
       ELSE LET subscribers_for_type == b.subscribers[event.event_type]
                account_subscribers == Get(subscribers_for_type, event.account_id, <<>>)
                all_account_subscribers == Get(subscribers_for_type, AllAccountsKey, <<>>)
                all_subscribers == account_subscribers \o all_account_subscribers
            IN [bus |-> [counted EXCEPT !.events_delivered = @ + Delivered(all_subscribers)],
                invoked |-> all_subscribers,
                returned |-> Len(all_subscribers)]

\* EventBus.unsubscribe_all: the bus after the call
UnsubscribeAll(b, account_id) ==
    IF account_id = None
    THEN [b EXCEPT !.subscribers = EmptyDict]
    ELSE [b EXCEPT !.subscribers =
              [t \in DOMAIN b.subscribers |->
                  IF account_id.value \in DOMAIN b.subscribers[t]
                  THEN Del(b.subscribers[t], account_id.value)
                  ELSE b.subscribers[t]]]

\* EventBus.get_statistics: subscriber_count
RECURSIVE SumOver(_, _)
SumOver(d, keys) ==
    IF keys = {} THEN 0
    ELSE LET k == CHOOSE x \in keys : TRUE
         IN Len(d[k]) + SumOver(d, keys \ {k})
RECURSIVE SubscriberCountOver(_, _)
SubscriberCountOver(b, types) ==
    IF types = {} THEN 0
    ELSE LET t == CHOOSE x \in types : TRUE
         IN SumOver(b.subscribers[t], DOMAIN b.subscribers[t])
            + SubscriberCountOver(b, types \ {t})
SubscriberCount(b) == SubscriberCountOver(b, DOMAIN b.subscribers)

IdleSwing == detector = NoDetector /\ calls = 0
IdleBreaks == use_body = FALSE /\ trend_state = UNKNOWN /\ events = <<>>
IdleStructure == analyzer = -1 /\ structure = NoStructure
IdleBus == bus = NewBus /\ delivery = NoDelivery

InitSwing ==
    /\ \E n \in 0..MaxBars :
        \/ \E sh \in [1..n -> SwingShapes(Prices)] :
               bars = WithTimestamps(sh, InOrder(n))
        \/ \E sh \in [1..n -> SwingShapes(TwoPrices)], ts \in OneDefect(n) :
               bars = WithTimestamps(sh, ts)
    /\ swings = <<>>
    /\ outcome = "none"
    /\ IdleSwing /\ IdleBreaks /\ IdleStructure /\ IdleBus

\* a constructor that keeps any lookback
ConstructUnchecked ==
    /\ detector = NoDetector
    /\ outcome = "none"
    /\ \E lb \in 0..MaxLookback :
        /\ detector' = [lookback |-> lb, swings_detected |-> 0,
                        highs_detected |-> 0, lows_detected |-> 0]
        /\ outcome' = "constructed"
    /\ UNCHANGED <<bars, swings, calls, use_body, trend_state, events, analyzer, structure, bus, delivery>>

\* SwingDetector(lookback): __init__ raises for lookback < 1
Construct ==
    /\ detector = NoDetector
    /\ outcome = "none"
    /\ \E lb \in 0..MaxLookback :
        IF lb < 1
        THEN /\ outcome' = "raised"
             /\ UNCHANGED detector
        ELSE /\ detector' = [lookback |-> lb, swings_detected |-> 0,
                             highs_detected |-> 0, lows_detected |-> 0]
             /\ outcome' = "constructed"
    /\ UNCHANGED <<bars, swings, calls, use_body, trend_state, events, analyzer, structure, bus, delivery>>

\* detector.detect_swings(bars)
CallDetectSwings ==
    /\ detector # NoDetector
    /\ calls < MaxCalls
    /\ LET r == DetectSwings(detector, bars)
       IN /\ outcome' = IF r.raised THEN "raised" ELSE "returned"
          /\ swings' = r.swings
          /\ detector' = r.detector
    /\ calls' = calls + 1
    /\ UNCHANGED <<bars, use_body, trend_state, events, analyzer, structure, bus, delivery>>

\* SwingDetector.reset_statistics: the detector after the call
ResetStatistics(det) ==
    [det EXCEPT !.swings_detected = 0, !.highs_detected = 0, !.lows_detected = 0]

\* detector.reset_statistics(): returns None and touches the three counters
\* only
CallResetStatistics ==
    /\ detector # NoDetector
    /\ detector' = ResetStatistics(detector)
    /\ UNCHANGED <<bars, swings, calls, outcome, use_body, trend_state, events, analyzer, structure, bus, delivery>>

\* SwingPoint(...) built by a caller, with arguments on both sides of each
\* bound that __post_init__ checks
NewSwingPoint ==
    /\ detector = NoDetector
    /\ outcome = "none"
    /\ \E price \in {0, 1}, lb \in {0, 1}, bar_index \in {-1, 0}, swing_type \in {HIGH, LOW} :
        IF PostInitRaises(price, lb, bar_index)
        THEN /\ outcome' = "raised"
             /\ UNCHANGED swings
        ELSE /\ swings' = <<SwingPoint(2, price, swing_type, bar_index, lb, 0)>>
             /\ outcome' = "point"
    /\ UNCHANGED <<bars, detector, calls, use_body, trend_state, events, analyzer, structure, bus, delivery>>

NextSwing == Construct \/ CallDetectSwings \/ CallResetStatistics \/ NewSwingPoint

SpecSwing == InitSwing /\ [][NextSwing]_vars

\* ------------------------------------------------- specification: breaks
\* bars in time order (flat bars over three price levels, or one bar fewer of
\* any bars over two) and a swing list marking some of their highs and lows
\* (a swing on the last bar precedes no bar and is left out)
InitBreaks ==
    /\ \E n \in 0..MaxBreakBars :
        \E sh \in [1..n -> FlatShapes(Prices)]
                    \cup (IF n < MaxBreakBars THEN [1..n -> BarShapes(TwoPrices)] ELSE {}) :
            \E marks \in SUBSET (Range(0, n - 1) \X {HIGH, LOW}) :
                /\ bars = WithTimestamps(sh, InOrder(n))
                /\ swings = MarkedSwings(bars, marks, 0)
    /\ outcome = "none"
    /\ IdleSwing /\ IdleBreaks /\ IdleStructure /\ IdleBus

\* BOSDetector(use_body).detect_bos(bars, swings)
CallDetectBos ==
    /\ outcome = "none"
    /\ \E ub \in BOOLEAN :
        /\ use_body' = ub
        /\ events' = DetectBos(bars, swings, ub)
    /\ outcome' = "bos"
    /\ UNCHANGED <<bars, swings, detector, calls, trend_state, analyzer, structure, bus, delivery>>

\* CHoCHDetector(use_body).detect_choch(bars, swings, trend_state)
CallDetectChoch ==
    /\ outcome = "none"
    /\ \E ub \in BOOLEAN, t \in TrendStates :
        /\ use_body' = ub
        /\ trend_state' = t
        /\ events' = DetectChoch(bars, swings, t, ub)
    /\ outcome' = "choch"
    /\ UNCHANGED <<bars, swings, detector, calls, analyzer, structure, bus, delivery>>

NextBreaks == CallDetectBos \/ CallDetectChoch

SpecBreaks == InitBreaks /\ [][NextBreaks]_vars

\* ------------------------------------------ specification: break calls
\* calls of the two detectors one after another on the same bars and swings
\* (flat bars over three price levels, or one bar fewer of any bars over two)
InitBreakCalls ==
    /\ \E n \in 0..(MaxBreakBars - 1) :
        \E sh \in [1..n -> FlatShapes(Prices)]
                    \cup (IF n < MaxBreakBars - 1 THEN [1..n -> BarShapes(TwoPrices)] ELSE {}) :
            \E marks \in SUBSET (Range(0, n - 1) \X {HIGH, LOW}) :
                /\ bars = WithTimestamps(sh, InOrder(n))
                /\ swings = MarkedSwings(bars, marks, 0)
    /\ outcome = "none"
    /\ IdleSwing /\ IdleBreaks /\ IdleStructure /\ IdleBus

\* BOSDetector(use_body).detect_bos(bars, swings), as the first call or
\* after other calls
SequencedDetectBos ==
    /\ calls < MaxCalls
    /\ \E ub \in BOOLEAN :
        /\ use_body' = ub
        /\ events' = DetectBos(bars, swings, ub)
    /\ outcome' = "bos"
    /\ calls' = calls + 1
    /\ UNCHANGED <<bars, swings, detector, trend_state, analyzer, structure, bus, delivery>>

\* a detect_choch that starts from the swings the events of the call before
\* name as broken
SequencedDetectChochKept ==
    /\ calls < MaxCalls
    /\ \E ub \in BOOLEAN, t \in TrendStates :
        /\ use_body' = ub
        /\ trend_state' = t
        /\ events' = IF ChochGate(t) THEN <<>>
                     ELSE ChochLoop(bars, swings, t, ub, 0,
                              {events[k].broken_swing.bar_index : k \in DOMAIN events})
    /\ outcome' = "choch"
    /\ calls' = calls + 1
    /\ UNCHANGED <<bars, swings, detector, analyzer, structure, bus, delivery>>

\* CHoCHDetector(use_body).detect_choch(bars, swings, trend_state), as the
\* first call or after other calls
SequencedDetectChoch ==
    /\ calls < MaxCalls
    /\ \E ub \in BOOLEAN, t \in TrendStates :
        /\ use_body' = ub
        /\ trend_state' = t
        /\ events' = DetectChoch(bars, swings, t, ub)
    /\ outcome' = "choch"
    /\ calls' = calls + 1
    /\ UNCHANGED <<bars, swings, detector, analyzer, structure, bus, delivery>>

NextBreakCalls == SequencedDetectBos \/ SequencedDetectChoch

SpecBreakCalls == InitBreakCalls /\ [][NextBreakCalls]_vars

\* ---------------------------------------------- specification: structure
InitStructure ==
    /\ \E n \in 0..MaxStructSwings :
        \E kp \in [1..n -> [swing_type : {HIGH, LOW}, price : Prices]] :
            swings = ListedSwings(kp)
    /\ bars = <<>>
    /\ outcome = "none"
    /\ analyzer = -1
    /\ structure = NoStructure
    /\ IdleSwing /\ IdleBreaks /\ IdleBus

\* StructureAnalyzer(min_swings_for_trend): __init__ keeps any value
ConstructAnalyzer ==
    /\ outcome = "none"
    /\ analyzer' \in 0..MaxMinSwings
    /\ outcome' = "constructed"
    /\ UNCHANGED <<bars, swings, detector, calls, use_body, trend_state, events, structure, bus, delivery>>

\* analyzer.analyze_structure(swings)
CallAnalyzeStructure ==
    /\ outcome = "constructed"
    /\ structure' = AnalyzeStructure(analyzer, swings)
    /\ outcome' = "analyzed"
    /\ UNCHANGED <<bars, swings, detector, calls, use_body, trend_state, events, analyzer, bus, delivery>>

NextStructure == ConstructAnalyzer \/ CallAnalyzeStructure

SpecStructure == InitStructure /\ [][NextStructure]_vars

\* ----------------------------------------------- specification: pipeline
\* bars in time order; the swing list given to the break detectors is the
\* one detect_swings returned for them
InitPipeline ==
    /\ \E n \in 0..MaxBreakBars :
        \E sh \in [1..n -> BarShapes(Prices)] :
            bars = WithTimestamps(sh, InOrder(n))
    /\ swings = <<>>
    /\ outcome = "none"
    /\ IdleSwing /\ IdleBreaks /\ IdleStructure /\ IdleBus

\* BOSDetector(use_body).detect_bos(bars, detector.detect_swings(bars))
PipelineDetectBos ==
    /\ outcome = "returned"
    /\ \E ub \in BOOLEAN :
        /\ use_body' = ub
        /\ events' = DetectBos(bars, swings, ub)
    /\ outcome' = "bos"
    /\ UNCHANGED <<bars, swings, detector, calls, trend_state, analyzer, structure, bus, delivery>>

\* CHoCHDetector(use_body).detect_choch(bars, detector.detect_swings(bars),
\* trend_state)
PipelineDetectChoch ==
    /\ outcome = "returned"
    /\ \E ub \in BOOLEAN, t \in TrendStates :
        /\ use_body' = ub
        /\ trend_state' = t
        /\ events' = DetectChoch(bars, swings, t, ub)
    /\ outcome' = "choch"
    /\ UNCHANGED <<bars, swings, detector, calls, analyzer, structure, bus, delivery>>

\* one scan, then the break detectors on its result
NextPipeline ==
    \/ Construct
    \/ (calls = 0 /\ CallDetectSwings)
    \/ CallResetStatistics
    \/ PipelineDetectBos
    \/ PipelineDetectChoch

SpecPipeline == InitPipeline /\ [][NextPipeline]_vars

\* ------------------------------------------ specification: empty inputs
\* the four components on inputs one of which is empty: bars with no swing
\* list, or a swing list with no bars
InitEmptyInputs ==
    /\ \/ /\ \E n \in 0..MaxBreakBars :
               \E sh \in [1..n -> BarShapes(TwoPrices)] :
                   bars = WithTimestamps(sh, InOrder(n))
          /\ swings = <<>>
       \/ /\ bars = <<>>
          /\ \E n \in 0..MaxStructSwings :
               \E kp \in [1..n -> [swing_type : {HIGH, LOW}, price : TwoPrices]] :
                   swings = ListedSwings(kp)
    /\ outcome = "none"
    /\ IdleSwing /\ IdleBreaks /\ IdleStructure /\ IdleBus

\* analyze_structure is called on a StructureAnalyzer, detect_swings on a
\* SwingDetector
NextEmptyInputs ==
    \/ Construct
    \/ CallDetectSwings
    \/ CallResetStatistics
    \/ CallDetectBos
    \/ CallDetectChoch
    \/ ConstructAnalyzer
    \/ (analyzer # -1 /\ CallAnalyzeStructure)

SpecEmptyInputs == InitEmptyInputs /\ [][NextEmptyInputs]_vars

\* ------------------------------------------------- specification: event bus
\* The module's EventBus instance: subscribe, publish and unsubscribe_all
\* calls in any order.
InitBus ==
    /\ bus = NewBus
    /\ delivery = NoDelivery
    /\ bars = <<>>
    /\ swings = <<>>
    /\ outcome = "none"
    /\ IdleSwing /\ IdleBreaks /\ IdleStructure

CallSubscribe ==
    /\ SubscriberCount(bus) < MaxSubscriptions
    /\ \E event_type \in PublishedTypes : \E callback \in Callbacks :
       \E account_id \in OptionalAccounts :
           bus' = Subscribe(bus, event_type, callback, account_id)
    /\ outcome' = "subscribed"
    /\ UNCHANGED <<bars, swings, detector, calls, use_body, trend_state, events, analyzer, structure, delivery>>

CallPublish ==
    /\ bus.events_published < MaxPublishes
    /\ \E event_type \in PublishedTypes : \E account_id \in Accounts :
           LET event == MarketEvent(event_type, account_id)
               call == Publish(bus, event)
           IN /\ bus' = call.bus
              /\ delivery' = [event |-> event, invoked |-> call.invoked,
                              returned |-> call.returned]
    /\ outcome' = "published"
    /\ UNCHANGED <<bars, swings, detector, calls, use_body, trend_state, events, analyzer, structure>>

CallUnsubscribeAll ==
    /\ \E account_id \in OptionalAccounts :
           bus' = UnsubscribeAll(bus, account_id)
    /\ outcome' = "unsubscribed"
    /\ UNCHANGED <<bars, swings, detector, calls, use_body, trend_state, events, analyzer, structure, delivery>>

NextBus == CallSubscribe \/ CallPublish \/ CallUnsubscribeAll

SpecBus == InitBus /\ [][NextBus]_vars

\* ======================================================= claims: swings
\* the bar list is strictly time-ordered
Ordered(bs) ==
    \A k \in 1..(Len(bs) - 1) : bs[k].timestamp_utc < bs[k + 1].timestamp_utc

\* a detect_swings call has been made and has returned a list
Returned == calls > 0 /\ outcome = "returned"

\* the swings of kind t reported for bar index i
SwingsFor(i, t) == {k \in DOMAIN swings : swings[k].bar_index = i /\ swings[k].swing_type = t}

\* C1 - No lookahead: every SwingPoint returned by detect_swings has
\* lookback <= bar_index <= len(bars) - lookback - 1, so neither the first
\* nor the last lookback bars ever appear as a swing.
C1_NoLookahead ==
    Returned =>
        \A k \in DOMAIN swings :
            /\ detector.lookback <= swings[k].bar_index
            /\ swings[k].bar_index <= Len(bars) - detector.lookback - 1

\* C1 witness: a scan that reported a swing on the last confirmed bar while
\* the last bar of the list makes a new strict high over all bars before it.
C1_Witness ==
    /\ Returned
    /\ \E k \in DOMAIN swings : swings[k].bar_index = Len(bars) - detector.lookback - 1
    /\ \A j \in 1..(Len(bars) - 1) : bars[j].high < bars[Len(bars)].high

\* C2 - Swing definition: on an ordered list of at least 2L+1 bars a HIGH
\* swing is reported at i (L <= i <= len-L-1) exactly when bars[i].high is
\* strictly above every high in [i-L, i-1] and at least every high in
\* [i+1, i+L]; a LOW swing exactly when bars[i].low is strictly below every
\* low on the left and at most every low on the right.  The swing carries
\* that bar's high (resp. low) as price and L as lookback.
C2_SwingDefinition ==
    (Returned /\ Len(bars) >= 2 * detector.lookback + 1) =>
        LET L == detector.lookback
        IN /\ \A i \in L..(Len(bars) - L - 1) :
                /\ (SwingsFor(i, HIGH) # {}) <=>
                      (/\ \A j \in (i - L)..(i - 1) : At(bars, j).high < At(bars, i).high
                       /\ \A j \in (i + 1)..(i + L) : At(bars, j).high <= At(bars, i).high)
                /\ (SwingsFor(i, LOW) # {}) <=>
                      (/\ \A j \in (i - L)..(i - 1) : At(bars, j).low > At(bars, i).low
                       /\ \A j \in (i + 1)..(i + L) : At(bars, j).low >= At(bars, i).low)
           /\ \A k \in DOMAIN swings :
                /\ swings[k].lookback = L
                /\ swings[k].price = IF swings[k].swing_type = HIGH
                                     THEN At(bars, swings[k].bar_index).high
                                     ELSE At(bars, swings[k].bar_index).low

\* C2 witness: a reported HIGH swing whose high is tied by a bar of its right
\* window, in a list where another eligible bar is no HIGH swing because a
\* bar of its left window ties it.
C2_Witness ==
    /\ Returned
    /\ \E k \in DOMAIN swings :
        /\ swings[k].swing_type = HIGH
        /\ \E j \in (swings[k].bar_index + 1)..(swings[k].bar_index + detector.lookback) :
               At(bars, j).high = swings[k].price
    /\ \E i \in detector.lookback..(Len(bars) - detector.lookback - 1) :
        /\ SwingsFor(i, HIGH) = {}
        /\ \A j \in (i - detector.lookback)..(i + detector.lookback) :
               At(bars, j).high <= At(bars, i).high

\* C3 - Sequencing error: on a non-empty list in which some adjacent pair has
\* bars[i].timestamp >= bars[i+1].timestamp, detect_swings raises and
\* returns no swing, whatever the length of the list.
C3_SequencingError ==
    (calls > 0 /\ bars # <<>> /\ ~Ordered(bars)) =>
        /\ outcome = "raised"
        /\ swings = <<>>

\* C3 witness: a call that raised on a list shorter than 2L+1 bars whose
\* timestamps hold a duplicate or an inversion.
C3_Witness ==
    /\ calls > 0
    /\ outcome = "raised"
    /\ ~Ordered(bars)
    /\ Len(bars) < 2 * detector.lookback + 1

\* C4 - Insufficient data is quiet: on an ordered list of fewer than 2L+1
\* bars (the empty list included) detect_swings returns [] and does not raise.
C4_InsufficientDataQuiet ==
    (calls > 0 /\ Ordered(bars) /\ Len(bars) < 2 * detector.lookback + 1) =>
        /\ outcome = "returned"
        /\ swings = <<>>

\* C4 witness: a call that returned [] on exactly 2L ordered bars, one short
\* of the minimum, whose bar L stands strictly above all the others.
C4_Witness ==
    /\ Returned
    /\ swings = <<>>
    /\ Ordered(bars)
    /\ Len(bars) = 2 * detector.lookback
    /\ \A j \in 0..(Len(bars) - 1) :
           j # detector.lookback => At(bars, j).high < At(bars, detector.lookback).high

\* ======================================================= claims: breaks
\* the Python index of the bar an event names as break_bar
BreakBarIndex(e) == CHOOSE i \in 0..(Len(bars) - 1) : At(bars, i) = e.break_bar

\* the price bar i is compared with against a swing high / a swing low
HighSide(i) == IF use_body THEN At(bars, i).close ELSE At(bars, i).high
LowSide(i) == IF use_body THEN At(bars, i).close ELSE At(bars, i).low

\* the events reported at bar i, by tag (direction of a BOSEvent)
BosAt(i, dir) ==
    {k \in DOMAIN events : events[k].direction = dir /\ BreakBarIndex(events[k]) = i}

\* bar indices marked broken by the events of bars before bar i
MarkedBefore(i) ==
    {events[k].broken_swing.bar_index : k \in {m \in DOMAIN events : BreakBarIndex(events[m]) < i}}

\* positions in swings of the swings of kind t that precede bar i and whose
\* bar index is not marked broken
Eligible(i, t) ==
    {k \in DOMAIN swings :
        /\ swings[k].swing_type = t
        /\ swings[k].bar_index < i
        /\ ~(swings[k].bar_index \in MarkedBefore(i))}

\* the swing formed last among the positions K
MostRecent(K) ==
    swings[CHOOSE k \in K : \A m \in K : swings[m].bar_index <= swings[k].bar_index]

\* C5 - At most one break per swing per detector: in the list returned by
\* one detect_bos call, and in the list returned by one detect_choch call,
\* no swing is the broken_swing of two events.
C5_AtMostOneBreak ==
    (outcome = "bos" \/ outcome = "choch") =>
        \A j, k \in DOMAIN events :
            j # k => events[j].broken_swing # events[k].broken_swing

\* C5 witness: a returned event whose broken swing is exceeded again by a
\* later bar, with no newer swing of its kind in the list (detect_bos: a
\* high; detect_choch in a BULLISH trend: a low).
C5_Witness ==
    \E k \in DOMAIN events :
        LET s == events[k].broken_swing
        IN /\ \A m \in DOMAIN swings :
                swings[m].swing_type = s.swing_type => swings[m].bar_index <= s.bar_index
           /\ \E i \in (BreakBarIndex(events[k]) + 1)..(Len(bars) - 1) :
                \/ outcome = "bos" /\ s.swing_type = HIGH /\ HighSide(i) > s.price
                \/ outcome = "choch" /\ s.swing_type = LOW /\ LowSide(i) < s.price

\* C6 - BOS rule: at bar i detect_bos takes the swing high formed last among
\* the swings with bar_index < i whose bar index is not yet marked broken,
\* and reports a BULLISH event naming it exactly when the break price (close
\* with use_body, high otherwise) is strictly above its price; the same with
\* the last such swing low, a BEARISH event and a break price (close or low)
\* strictly below.  An equal price does not break.
C6_BosRule ==
    outcome = "bos" =>
        \A i \in 0..(Len(bars) - 1) :
            /\ IF Eligible(i, HIGH) = {} THEN BosAt(i, BULLISH) = {}
               ELSE LET h == MostRecent(Eligible(i, HIGH))
                    IN /\ (BosAt(i, BULLISH) # {}) <=> (HighSide(i) > h.price)
                       /\ \A k \in BosAt(i, BULLISH) :
                              events[k].broken_swing = h /\ events[k].break_price = HighSide(i)
            /\ IF Eligible(i, LOW) = {} THEN BosAt(i, BEARISH) = {}
               ELSE LET l == MostRecent(Eligible(i, LOW))
                    IN /\ (BosAt(i, BEARISH) # {}) <=> (LowSide(i) < l.price)
                       /\ \A k \in BosAt(i, BEARISH) :
                              events[k].broken_swing = l /\ events[k].break_price = LowSide(i)

\* C6 witness: a BULLISH event naming the latest swing high while an older
\* swing high, eligible at that bar too, has a strictly higher price that
\* the break price does not exceed; and a bar whose break price equals the
\* price of its reference high and reports nothing.
C6_Witness ==
    /\ outcome = "bos"
    /\ \E k \in DOMAIN events :
        /\ events[k].direction = BULLISH
        /\ \E m \in Eligible(BreakBarIndex(events[k]), HIGH) :
               /\ swings[m].price > events[k].broken_swing.price
               /\ swings[m].price >= events[k].break_price
    /\ \E i \in 0..(Len(bars) - 1) :
        /\ Eligible(i, HIGH) # {}
        /\ HighSide(i) = MostRecent(Eligible(i, HIGH)).price
        /\ BosAt(i, BULLISH) = {}

\* swings that are the broken_swing of an event of a bar before bar i
BrokenBefore(i) ==
    {events[k].broken_swing : k \in {m \in DOMAIN events : BreakBarIndex(events[m]) < i}}

\* positions of the swings of kind t that precede bar i and have not
\* themselves been broken
Unbroken(i, t) ==
    {k \in DOMAIN swings :
        /\ swings[k].swing_type = t
        /\ swings[k].bar_index < i
        /\ ~(swings[k] \in BrokenBefore(i))}

\* C7 - BOS directions are independent: at every bar a swing low that
\* precedes the bar and has not itself been the broken_swing of an earlier
\* event is eligible for a BEARISH event whatever swing highs have been
\* broken, and the same for swing highs: the BEARISH event of bar i names the
\* last swing low not itself broken and exists exactly when the break price
\* is strictly below it; likewise for BULLISH and the swing highs.
C7_DirectionsIndependent ==
    outcome = "bos" =>
        \A i \in 0..(Len(bars) - 1) :
            /\ IF Unbroken(i, LOW) = {} THEN BosAt(i, BEARISH) = {}
               ELSE LET l == MostRecent(Unbroken(i, LOW))
                    IN /\ (BosAt(i, BEARISH) # {}) <=> (LowSide(i) < l.price)
                       /\ \A k \in BosAt(i, BEARISH) : events[k].broken_swing = l
            /\ IF Unbroken(i, HIGH) = {} THEN BosAt(i, BULLISH) = {}
               ELSE LET h == MostRecent(Unbroken(i, HIGH))
                    IN /\ (BosAt(i, BULLISH) # {}) <=> (HighSide(i) > h.price)
                       /\ \A k \in BosAt(i, BULLISH) : events[k].broken_swing = h

\* the events of a CHoCH list reported at bar i
ChochAt(i) == {k \in DOMAIN events : BreakBarIndex(events[k]) = i}

\* C8 - CHoCH gating: detect_choch returns an empty list whenever
\* trend_state is RANGING or UNKNOWN, for either value of use_body.
C8_ChochGating ==
    (outcome = "choch" /\ (trend_state = RANGING \/ trend_state = UNKNOWN)) =>
        events = <<>>

\* C8 witness: a call with trend_state RANGING that returned [] on bars and
\* swings where a later bar goes strictly beyond the latest swing high and
\* another strictly beyond the latest swing low.
C8_Witness ==
    /\ outcome = "choch"
    /\ trend_state = RANGING
    /\ events = <<>>
    /\ \E i \in 0..(Len(bars) - 1) :
           Eligible(i, HIGH) # {} /\ HighSide(i) > MostRecent(Eligible(i, HIGH)).price
    /\ \E i \in 0..(Len(bars) - 1) :
           Eligible(i, LOW) # {} /\ LowSide(i) < MostRecent(Eligible(i, LOW)).price

\* the CHoCH rule for one trend: the kind of swing broken, the event type,
\* and on which side the break price must lie
ChochRule(trend, kind, type, sign) ==
    (outcome = "choch" /\ trend_state = trend) =>
        /\ \A k \in DOMAIN events :
              events[k].choch_type = type /\ events[k].prior_trend = trend
        /\ \A i \in 0..(Len(bars) - 1) :
              LET price == IF kind = LOW THEN LowSide(i) ELSE HighSide(i)
              IN IF Eligible(i, kind) = {} THEN ChochAt(i) = {}
                 ELSE LET s == MostRecent(Eligible(i, kind))
                      IN /\ (ChochAt(i) # {}) <=> (sign * price > sign * s.price)
                         /\ Cardinality(ChochAt(i)) <= 1
                         /\ \A k \in ChochAt(i) :
                                events[k].broken_swing = s /\ events[k].break_price = price

\* the first bar after the latest swing low whose break price is strictly
\* below it yields exactly one event naming that low
FirstBreakOfLatestLow ==
    (outcome = "choch" /\ trend_state = BULLISH /\ Eligible(Len(bars), LOW) # {}) =>
        LET l == MostRecent({k \in DOMAIN swings : swings[k].swing_type = LOW})
            after == {i \in (l.bar_index + 1)..(Len(bars) - 1) : LowSide(i) < l.price}
        IN after # {} =>
              LET first == CHOOSE i \in after : \A j \in after : i <= j
              IN /\ Cardinality({k \in DOMAIN events : events[k].broken_swing = l}) = 1
                 /\ \A k \in DOMAIN events :
                        events[k].broken_swing = l => BreakBarIndex(events[k]) = first

\* C9 - CHoCH rule: with trend_state BULLISH detect_choch reports only
\* BULLISH_TO_BEARISH events with prior_trend BULLISH, one at each bar whose
\* break price (close, or low in wick mode) is strictly below the latest
\* not yet broken swing low before the bar, naming that low; with BEARISH
\* only BEARISH_TO_BULLISH events against the latest not yet broken swing
\* high, break price (close or high) strictly above.  The first bar after
\* the latest swing low that breaks it yields exactly one event naming it.
C9_ChochRule ==
    /\ ChochRule(BULLISH, LOW, BULLISH_TO_BEARISH, -1)
    /\ ChochRule(BEARISH, HIGH, BEARISH_TO_BULLISH, 1)
    /\ FirstBreakOfLatestLow

\* C9 witness: a BULLISH-trend call on a list with two swing lows where a
\* bar after the latest low breaks it, a bar equals the price of its
\* reference low and reports nothing, and the list holds a swing high that a
\* bar exceeds.
C9_Witness ==
    /\ outcome = "choch"
    /\ trend_state = BULLISH
    /\ Cardinality({k \in DOMAIN swings : swings[k].swing_type = LOW}) >= 2
    /\ \E k \in DOMAIN events :
           \A m \in DOMAIN swings :
               swings[m].swing_type = LOW => swings[m].bar_index <= events[k].broken_swing.bar_index
    /\ \E i \in 0..(Len(bars) - 1) :
           /\ Eligible(i, LOW) # {}
           /\ LowSide(i) = MostRecent(Eligible(i, LOW)).price
    /\ \E m \in DOMAIN swings, i \in 0..(Len(bars) - 1) :
           swings[m].swing_type = HIGH /\ swings[m].bar_index < i /\ HighSide(i) > swings[m].price

\* ==================================================== claims: structure
\* the prices of the swings of kind t, in input order
PricesOf(t) ==
    LET pos == {k \in DOMAIN swings : swings[k].swing_type = t}
        Nth(n) == CHOOSE k \in pos : Cardinality({m \in pos : m < k}) = n - 1
    IN [n \in 1..Cardinality(pos) |-> swings[Nth(n)].price]

\* the number of steps at the end of p that all go the way of sign (1: each
\* value strictly above its predecessor, -1: strictly below)
StreakAtEnd(p, sign) ==
    LET runs == {j \in 0..(Len(p) - 1) :
                    \A m \in (Len(p) - j + 1)..Len(p) : sign * p[m] > sign * p[m - 1]}
    IN IF runs = {} THEN 0 ELSE CHOOSE j \in runs : \A r \in runs : r <= j

\* C10 - Higher-highs / lower-lows run is a current streak: higher_highs of
\* the returned StructureState is the number of consecutive strict increases
\* at the end of the highs sub-sequence; it is 0 with fewer than two highs
\* or when the last high is not strictly above its predecessor.  lower_lows
\* is the mirror over the lows with strict decreases.
C10_CurrentStreak ==
    outcome = "analyzed" =>
        LET hs == PricesOf(HIGH)
            ls == PricesOf(LOW)
        IN /\ structure.higher_highs = StreakAtEnd(hs, 1)
           /\ structure.lower_lows = StreakAtEnd(ls, -1)
           /\ (Len(hs) < 2 \/ hs[Len(hs)] <= hs[Len(hs) - 1]) => structure.higher_highs = 0
           /\ (Len(ls) < 2 \/ ls[Len(ls)] >= ls[Len(ls) - 1]) => structure.lower_lows = 0

\* C10 witness: highs that rise, then fail to rise, then rise again: the
\* returned higher_highs is 1 though two highs of the list are higher highs.
C10_Witness ==
    /\ outcome = "analyzed"
    /\ structure.higher_highs = 1
    /\ LET hs == PricesOf(HIGH)
       IN /\ Len(hs) >= 4
          /\ Cardinality({m \in 2..Len(hs) : hs[m] > hs[m - 1]}) >= 2
          /\ \E m \in 2..Len(hs) : hs[m] <= hs[m - 1]

\* both kinds of swing reach min_swings_for_trend
EnoughSwings ==
    Len(PricesOf(HIGH)) >= analyzer /\ Len(PricesOf(LOW)) >= analyzer

\* the last value of p lies strictly on the side of sign of the one before
LastStep(p, sign) ==
    Len(p) >= 2 /\ sign * p[Len(p)] > sign * p[Len(p) - 1]

\* the bullish pattern: a long enough run of higher highs and a higher low
BullishPattern ==
    StreakAtEnd(PricesOf(HIGH), 1) >= analyzer - 1 /\ LastStep(PricesOf(LOW), 1)

\* the bearish pattern: a long enough run of lower lows and a lower high
BearishPattern ==
    StreakAtEnd(PricesOf(LOW), -1) >= analyzer - 1 /\ LastStep(PricesOf(HIGH), -1)

\* p rises strictly from each value to the next
Rising(p) == \A m \in 2..Len(p) : p[m] > p[m - 1]

\* C11 - Trend needs enough swings: for a non-empty swing list the returned
\* trend is UNKNOWN exactly when the number of swing highs or the number of
\* swing lows is below min_swings_for_trend; it is never UNKNOWN when both
\* numbers reach min_swings_for_trend.
C11_TrendNeedsEnoughSwings ==
    (outcome = "analyzed" /\ swings # <<>>) =>
        (structure.trend = UNKNOWN <=> ~EnoughSwings)

\* C11 witness: a list with enough rising highs and a higher low count short
\* by one low is answered UNKNOWN.
C11_Witness ==
    /\ outcome = "analyzed"
    /\ analyzer >= 2
    /\ Len(PricesOf(HIGH)) >= analyzer
    /\ Len(PricesOf(LOW)) = analyzer - 1
    /\ StreakAtEnd(PricesOf(HIGH), 1) >= analyzer - 1
    /\ structure.trend = UNKNOWN

\* C12 - Bullish classification: the returned trend is BULLISH exactly when
\* both kinds reach min_swings_for_trend, the run of higher highs is at
\* least min_swings_for_trend - 1, and there are at least two swing lows the
\* latest of which is strictly above the one before.  With
\* min_swings_for_trend = 2, a list of at least two strictly rising highs
\* and at least two strictly rising lows is BULLISH with higher_highs >= 1.
C12_Bullish ==
    outcome = "analyzed" =>
        /\ structure.trend = BULLISH <=> (EnoughSwings /\ BullishPattern)
        /\ ( /\ analyzer = 2
             /\ Len(PricesOf(HIGH)) >= 2 /\ Rising(PricesOf(HIGH))
             /\ Len(PricesOf(LOW)) >= 2 /\ Rising(PricesOf(LOW)) )
           => (structure.trend = BULLISH /\ structure.higher_highs >= 1)

\* C12 witness: min_swings_for_trend = 2 and a list of strictly rising highs
\* and strictly rising lows, three of one kind, answered BULLISH.
C12_Witness ==
    /\ outcome = "analyzed"
    /\ analyzer = 2
    /\ Len(PricesOf(HIGH)) >= 2 /\ Rising(PricesOf(HIGH))
    /\ Len(PricesOf(LOW)) >= 2 /\ Rising(PricesOf(LOW))
    /\ Len(swings) = MaxStructSwings
    /\ structure.trend = BULLISH
    /\ structure.higher_highs >= 1

\* C13 - Bearish and ranging classification: when both kinds reach
\* min_swings_for_trend and the bullish pattern does not hold, the trend is
\* BEARISH exactly when the run of lower lows is at least
\* min_swings_for_trend - 1 and the latest swing high is strictly below the
\* one before; when neither pattern holds it is RANGING.
C13_BearishOrRanging ==
    (outcome = "analyzed" /\ swings # <<>> /\ EnoughSwings /\ ~BullishPattern) =>
        /\ structure.trend = BEARISH <=> BearishPattern
        /\ ~BearishPattern => structure.trend = RANGING

\* C13 witness: enough swings, lower lows without a lower high: the answer
\* is RANGING though the lows alone look bearish.
C13_Witness ==
    /\ outcome = "analyzed"
    /\ analyzer = 2
    /\ EnoughSwings
    /\ StreakAtEnd(PricesOf(LOW), -1) >= 1
    /\ ~LastStep(PricesOf(HIGH), -1)
    /\ structure.trend = RANGING

\* C14 - Bullish wins ties: whenever the bullish pattern and the bearish
\* pattern hold at once, the returned trend is BULLISH.
C14_BullishWinsTies ==
    (outcome = "analyzed" /\ BullishPattern /\ BearishPattern) =>
        structure.trend = BULLISH

\* C14 witness: min_swings_for_trend = 1 and a list whose latest low is a
\* higher low and whose latest high is a lower high: both patterns hold and
\* the answer is BULLISH.
C14_Witness ==
    /\ outcome = "analyzed"
    /\ analyzer = 1
    /\ BullishPattern
    /\ BearishPattern
    /\ structure.trend = BULLISH

\* C15 - Invalid min_swings_for_trend rejected: no StructureAnalyzer exists
\* with min_swings_for_trend < 1 and no StructureState is produced under
\* such a parameter.
C15_InvalidMinSwingsRejected ==
    /\ outcome = "constructed" => analyzer >= 1
    /\ structure # NoStructure => analyzer >= 1

\* ============================================ claims: swings, continued
\* C16 - Invalid lookback rejected: no SwingDetector exists with
\* lookback < 1, so detect_swings never runs with such a lookback; and no
\* SwingPoint exists, built by a caller or by detect_swings, with
\* price <= 0, lookback < 1 or bar_index < 0.
C16_InvalidLookbackRejected ==
    /\ detector # NoDetector => detector.lookback >= 1
    /\ calls > 0 => detector.lookback >= 1
    /\ \A k \in DOMAIN swings :
           swings[k].price > 0 /\ swings[k].lookback >= 1 /\ swings[k].bar_index >= 0

\* C16 witness: a construction was refused: no detector exists, nothing was
\* scanned and no swing point was built.
C16_Witness ==
    /\ outcome = "raised"
    /\ detector = NoDetector
    /\ calls = 0
    /\ swings = <<>>

\* the bar indices of the 2L neighbours of bar i
Neighbours(i, L) == ((i - L)..(i + L)) \ {i}

\* C17 - Swing strength: the strength of every returned swing at bar i is
\* the number of its 2L neighbours in [i-L, i+L], i excluded, whose high is
\* strictly below the swing price (HIGH swing) or whose low is strictly above
\* it (LOW swing).
C17_SwingStrength ==
    Returned =>
        \A k \in DOMAIN swings :
            LET i == swings[k].bar_index
                N == Neighbours(i, detector.lookback)
            IN swings[k].strength =
                 IF swings[k].swing_type = HIGH
                 THEN Cardinality({j \in N : At(bars, j).high < swings[k].price})
                 ELSE Cardinality({j \in N : At(bars, j).low > swings[k].price})

\* C17 witness: with lookback 2, a HIGH swing tied by one bar of its right
\* window has strength 3 and a LOW swing below all four neighbours has
\* strength 4.
C17_Witness ==
    /\ Returned
    /\ detector.lookback = 2
    /\ \E k \in DOMAIN swings :
           /\ swings[k].swing_type = HIGH
           /\ swings[k].strength = 3
           /\ \E j \in Neighbours(swings[k].bar_index, 2) : At(bars, j).high = swings[k].price
    /\ \E k \in DOMAIN swings : swings[k].swing_type = LOW /\ swings[k].strength = 4

\* a SwingDetector as __init__ leaves it
NewDetector(lb) ==
    [lookback |-> lb, swings_detected |-> 0, highs_detected |-> 0, lows_detected |-> 0]

\* C18 - Determinism: a detect_swings call on the same bars with the same
\* lookback gives the same answer (the same swing sequence, or the same
\* failure) whatever calls the instance served before: a repeated call
\* repeats the answer of the call before it, and every answer is the one a
\* newly constructed detector gives.
C18_Deterministic ==
    /\ [][(calls > 0 /\ calls' = calls + 1) =>
              (swings' = swings /\ outcome' = outcome)]_vars
    /\ [](calls > 0 =>
              LET fresh == DetectSwings(NewDetector(detector.lookback), bars)
              IN /\ swings = fresh.swings
                 /\ (outcome = "raised") = fresh.raised)

\* C18 witness: a second call on an instance whose counters the first call
\* has changed returns a non-empty swing list.
C18_Witness ==
    /\ calls = 2
    /\ outcome = "returned"
    /\ swings # <<>>
    /\ detector.swings_detected > Len(swings)

\* C19 - Run statistics are call-scoped: after any sequence of
\* detect_swings calls the counters behind get_statistics are those of the
\* most recent scan alone: every detect_swings call that returns leaves in
\* them the numbers of swings, of highs and of lows it returned.
C19_StatisticsCallScoped ==
    [][(calls' = calls + 1 /\ outcome' = "returned") =>
          /\ detector'.swings_detected = Len(swings')
          /\ detector'.highs_detected = Count(swings', HIGH)
          /\ detector'.lows_detected = Count(swings', LOW)]_vars

\* ================================================= claims: break calls
\* the swings named as broken by an event list
BrokenIn(es) == {es[k].broken_swing : k \in DOMAIN es}

\* what a call owes when it is the first made on its input: the BOS rule or
\* the CHoCH rule of its trend, read with the marks of its own events alone
\* (Eligible takes the marked swings from the events of the answer itself)
AnswersAsFirstCall ==
    /\ C6_BosRule
    /\ C8_ChochGating
    /\ ChochRule(BULLISH, LOW, BULLISH_TO_BEARISH, -1)
    /\ ChochRule(BEARISH, HIGH, BEARISH_TO_BULLISH, 1)

\* the swings of bos-kind events (a detect_bos answer held before the step)
\* that the CHoCH rule of the trend given next has broken at some bar, were
\* the call the first on its input
OwedToChoch(kind, sign) ==
    {s \in BrokenIn(events) :
        /\ s.swing_type = kind
        /\ \E i \in (s.bar_index + 1)..(Len(bars) - 1) :
              LET side == IF kind = LOW
                          THEN (IF use_body' THEN At(bars, i).close ELSE At(bars, i).low)
                          ELSE (IF use_body' THEN At(bars, i).close ELSE At(bars, i).high)
              IN /\ sign * side > sign * s.price
                 /\ \A m \in DOMAIN swings :
                        (swings[m].swing_type = kind /\ swings[m].bar_index < i)
                            => swings[m].bar_index <= s.bar_index}

\* C20 - Break detectors share no state and keep none between calls: in
\* every sequence of detect_bos and detect_choch calls on the same bars and
\* swings, in any order, each answer obeys the rule of a first call, with no
\* swing marked by a call before it; a swing that the detect_bos call before
\* has broken is still broken by the detect_choch call after it when it is
\* the latest of its kind and a later bar goes beyond it; and a call repeated
\* with the same parameters repeats the event sequence.
C20_NoStateBetweenCalls ==
    /\ [](calls > 0 => AnswersAsFirstCall)
    /\ [][(calls' = calls + 1 /\ outcome = "bos" /\ outcome' = "choch") =>
              /\ trend_state' = BULLISH => OwedToChoch(LOW, -1) \subseteq BrokenIn(events')
              /\ trend_state' = BEARISH => OwedToChoch(HIGH, 1) \subseteq BrokenIn(events')]_vars
    /\ [][(calls' = calls + 1 /\ outcome' = outcome /\ use_body' = use_body
              /\ trend_state' = trend_state) => events' = events]_vars

\* C20 witness: the second call of a sequence is a detect_choch whose answer
\* names as broken a swing that detect_bos, in body and in wick mode, names
\* as broken on the same input.
C20_Witness ==
    /\ calls = 2
    /\ outcome = "choch"
    /\ \E s \in BrokenIn(events) :
           \A ub \in BOOLEAN : s \in BrokenIn(DetectBos(bars, swings, ub))

\* ================================================ claims: empty inputs
\* C21 - Empty inputs never raise: detect_swings on an empty bar list
\* returns an empty list; detect_bos and detect_choch, for every trend_state,
\* return an empty list when the bar list or the swing list is empty;
\* analyze_structure on an empty swing list returns trend UNKNOWN with no
\* last swing high, no last swing low, higher_highs 0 and lower_lows 0.
C21_EmptyInputsNeverRaise ==
    /\ (calls > 0 /\ bars = <<>>) => (outcome = "returned" /\ swings = <<>>)
    /\ (outcome \in {"bos", "choch"} /\ (bars = <<>> \/ swings = <<>>)) => events = <<>>
    /\ (outcome = "analyzed" /\ swings = <<>>) =>
           /\ structure.trend = UNKNOWN
           /\ structure.last_swing_high = None
           /\ structure.last_swing_low = None
           /\ structure.higher_highs = 0
           /\ structure.lower_lows = 0

\* C21 witness: detect_swings has answered an empty bar list with an empty
\* swing list and counted nothing.
C21_Witness ==
    /\ calls > 0
    /\ bars = <<>>
    /\ outcome = "returned"
    /\ swings = <<>>
    /\ detector.swings_detected = 0

\* ============================================ claims: swings, further
\* the swing-high rule and the swing-low rule at bar i for lookback L
HighRule(i, L) ==
    /\ \A j \in (i - L)..(i - 1) : At(bars, j).high < At(bars, i).high
    /\ \A j \in (i + 1)..(i + L) : At(bars, j).high <= At(bars, i).high
LowRule(i, L) ==
    /\ \A j \in (i - L)..(i - 1) : At(bars, j).low > At(bars, i).low
    /\ \A j \in (i + 1)..(i + L) : At(bars, j).low >= At(bars, i).low

\* C22 - Double detection: a bar at an eligible index that satisfies both
\* the swing-high rule and the swing-low rule is reported twice, as exactly
\* one HIGH swing carrying its high and the strength counted over the highs
\* and exactly one LOW swing carrying its low and the strength counted over
\* the lows.
C22_DoubleDetection ==
    Returned =>
        LET L == detector.lookback
        IN \A i \in L..(Len(bars) - L - 1) :
            (HighRule(i, L) /\ LowRule(i, L)) =>
                /\ Cardinality(SwingsFor(i, HIGH)) = 1
                /\ Cardinality(SwingsFor(i, LOW)) = 1
                /\ \A k \in SwingsFor(i, HIGH) :
                    /\ swings[k].price = At(bars, i).high
                    /\ swings[k].strength =
                         Cardinality({j \in Neighbours(i, L) : At(bars, j).high < At(bars, i).high})
                /\ \A k \in SwingsFor(i, LOW) :
                    /\ swings[k].price = At(bars, i).low
                    /\ swings[k].strength =
                         Cardinality({j \in Neighbours(i, L) : At(bars, j).low > At(bars, i).low})

\* C22 witness: one bar reported as a HIGH swing and as a LOW swing with
\* different prices and different strengths.
C22_Witness ==
    /\ Returned
    /\ \E h, l \in DOMAIN swings :
        /\ swings[h].swing_type = HIGH
        /\ swings[l].swing_type = LOW
        /\ swings[h].bar_index = swings[l].bar_index
        /\ swings[h].price # swings[l].price
        /\ swings[h].strength # swings[l].strength

\* C23 - Swing output order: the returned list is sorted by timestamp
\* ascending: along the list the timestamp and the bar_index never decrease,
\* and two swings share a bar_index only as the HIGH and the LOW of one bar.
C23_SwingOutputOrder ==
    Returned =>
        \A k, m \in DOMAIN swings :
            k < m =>
                /\ swings[k].timestamp <= swings[m].timestamp
                /\ swings[k].bar_index <= swings[m].bar_index
                /\ swings[k].bar_index = swings[m].bar_index =>
                       {swings[k].swing_type, swings[m].swing_type} = {HIGH, LOW}

\* C23 witness: a returned list of at least three swings, two of them the
\* HIGH and the LOW of one bar and one of a later bar.
C23_Witness ==
    /\ Returned
    /\ Len(swings) >= 3
    /\ swings[Len(swings)].bar_index > swings[1].bar_index
    /\ \E k \in 1..(Len(swings) - 1) : swings[k].bar_index = swings[k + 1].bar_index

\* the value of bar j on the side of swing s: its high for a HIGH swing, its
\* low for a LOW swing
SideOf(s, j) == IF s.swing_type = HIGH THEN At(bars, j).high ELSE At(bars, j).low

\* C26 - Swing strength bounds: every returned swing has
\* L <= strength <= 2*L, and strength = 2*L exactly when no bar of its right
\* window ties the swing price.  On 2*L+1 bars whose middle bar has the
\* strict maximum high, exactly one HIGH swing is returned, at index L, with
\* strength 2*L.
C26_StrengthBounds ==
    Returned =>
        LET L == detector.lookback
        IN /\ \A k \in DOMAIN swings :
                /\ L <= swings[k].strength
                /\ swings[k].strength <= 2 * L
                /\ swings[k].strength = 2 * L <=>
                       \A j \in (swings[k].bar_index + 1)..(swings[k].bar_index + L) :
                           SideOf(swings[k], j) # swings[k].price
           /\ ( /\ Len(bars) = 2 * L + 1
                /\ \A j \in 0..(2 * L) : j # L => At(bars, j).high < At(bars, L).high )
              => \E k \in DOMAIN swings :
                     /\ swings[k].swing_type = HIGH
                     /\ swings[k].bar_index = L
                     /\ swings[k].strength = 2 * L
                     /\ \A m \in DOMAIN swings : swings[m].swing_type = HIGH => m = k

\* C26 witness: lookback 2 on five bars whose middle bar has the strict
\* maximum high: one HIGH swing at index 2 with strength 4; the same list
\* holds a LOW swing of strength 3.
C26_Witness ==
    /\ Returned
    /\ detector.lookback = 2
    /\ Len(bars) = 5
    /\ \A j \in {0, 1, 3, 4} : At(bars, j).high < At(bars, 2).high
    /\ \E k \in DOMAIN swings : swings[k].swing_type = HIGH /\ swings[k].strength = 4
    /\ \E k \in DOMAIN swings : swings[k].swing_type = LOW /\ swings[k].strength = 3

\* ================================================ claims: breaks, further
\* C24 - Only the latest reference point matters: within one detect_bos run
\* the swings broken by successive events of one direction have increasing
\* bar_index: once a swing high is broken, no older swing high is reported
\* broken by a later bullish event, and likewise for lows and bearish events.
C24_OnlyLatestReference ==
    outcome = "bos" =>
        \A k, m \in DOMAIN events :
            (k < m /\ events[k].direction = events[m].direction) =>
                events[k].broken_swing.bar_index < events[m].broken_swing.bar_index

\* C24, as the code has it: an event names an older swing only when every
\* newer swing of the same kind before its bar has had its bar index marked
\* broken by an earlier event of the run: the reference is the newest swing
\* not yet marked, and an older swing becomes the reference again once the
\* newer ones are broken.
C24_NewestUnmarkedReference ==
    outcome = "bos" =>
        \A k \in DOMAIN events :
            \A s \in DOMAIN swings :
                ( /\ swings[s].swing_type = events[k].broken_swing.swing_type
                  /\ swings[s].bar_index > events[k].broken_swing.bar_index
                  /\ swings[s].bar_index < BreakBarIndex(events[k]) )
                => \E j \in 1..(k - 1) :
                       events[j].broken_swing.bar_index = swings[s].bar_index

\* C24 witness: two bullish events of one run, the later one naming the
\* older swing high.
C24_Witness ==
    /\ outcome = "bos"
    /\ \E k, m \in DOMAIN events :
        /\ k < m
        /\ events[k].direction = BULLISH
        /\ events[m].direction = BULLISH
        /\ events[m].broken_swing.bar_index < events[k].broken_swing.bar_index

\* no two swings of the list share a bar_index
DistinctBars ==
    \A k, m \in DOMAIN swings : swings[k].bar_index = swings[m].bar_index => k = m

\* the events of direction dir among the BOS events es, in order
Half(es, dir) == SelectSeq(es, LAMBDA e : e.direction = dir)

\* C28 - CHoCH is the counter-trend half of BOS: on a swing list in which no
\* two swings share a bar_index, the events of detect_choch with trend_state
\* BULLISH match one to one and in order (same broken swing, same break bar,
\* same break price) the BEARISH events of detect_bos on the same bars,
\* swings and use_body; with trend_state BEARISH they match its BULLISH
\* events.
C28_ChochIsCounterTrendBos ==
    (outcome = "choch" /\ trend_state \in {BULLISH, BEARISH} /\ DistinctBars) =>
        LET half == Half(DetectBos(bars, swings, use_body),
                         IF trend_state = BULLISH THEN BEARISH ELSE BULLISH)
        IN /\ Len(events) = Len(half)
           /\ \A k \in DOMAIN events :
                /\ events[k].broken_swing = half[k].broken_swing
                /\ events[k].break_bar = half[k].break_bar
                /\ events[k].break_price = half[k].break_price

\* C28 witness: a wick-mode BULLISH-trend call reporting an event on a
\* list of swings of distinct bars on which detect_bos reports events of
\* both directions, one break made by a wick that the close does not make.
C28_Witness ==
    /\ outcome = "choch"
    /\ trend_state = BULLISH
    /\ use_body = FALSE
    /\ DistinctBars
    /\ Len(events) >= 1
    /\ Len(DetectBos(bars, swings, FALSE)) > Len(events)
    /\ \E k \in DOMAIN events :
           events[k].break_bar.close >= events[k].broken_swing.price

\* C29 - Break events are emitted in scan order: along the list returned
\* by detect_bos the break bar index and the timestamp never decrease, every
\* event's broken swing lies on a bar before its break bar, and when one bar
\* yields both directions the BULLISH event comes first; along the list
\* returned by detect_choch the break bar index strictly increases.
C29_ScanOrder ==
    /\ outcome = "bos" =>
        /\ \A k \in DOMAIN events :
               events[k].broken_swing.bar_index < BreakBarIndex(events[k])
        /\ \A k, m \in DOMAIN events :
               k < m =>
                   /\ BreakBarIndex(events[k]) <= BreakBarIndex(events[m])
                   /\ events[k].timestamp <= events[m].timestamp
                   /\ BreakBarIndex(events[k]) = BreakBarIndex(events[m]) =>
                          (events[k].direction = BULLISH /\ events[m].direction = BEARISH)
    /\ outcome = "choch" =>
        \A k, m \in DOMAIN events :
            k < m => BreakBarIndex(events[k]) < BreakBarIndex(events[m])

\* C29 witness: a detect_bos list with events at two bars, one of which
\* yields a BULLISH and a BEARISH event.
C29_Witness ==
    /\ outcome = "bos"
    /\ \E k \in 1..(Len(events) - 1) :
           BreakBarIndex(events[k]) = BreakBarIndex(events[k + 1])
    /\ BreakBarIndex(events[1]) < BreakBarIndex(events[Len(events)])

\* ===================================================== claims: pipeline
\* C25 - No break inside the confirmation window: when the break detectors
\* are given the swings detect_swings returned for the same bars with
\* lookback L, every event, in body and in wick mode, names a break bar whose
\* index is strictly greater than broken_swing.bar_index + L.
C25_NoBreakInsideConfirmation ==
    (outcome \in {"bos", "choch"} /\ detector # NoDetector) =>
        \A k \in DOMAIN events :
            BreakBarIndex(events[k]) > events[k].broken_swing.bar_index + detector.lookback

\* C25 witness: a wick-mode BOS call on detected swings reports a swing high
\* broken by the first bar after its confirmation window, a window in which
\* a bar reached the swing price.
C25_Witness ==
    /\ outcome = "bos"
    /\ detector # NoDetector
    /\ use_body = FALSE
    /\ \E k \in DOMAIN events :
        LET s == events[k].broken_swing
        IN /\ s.swing_type = HIGH
           /\ BreakBarIndex(events[k]) = s.bar_index + detector.lookback + 1
           /\ \E j \in (s.bar_index + 1)..(s.bar_index + detector.lookback) :
                  At(bars, j).high = s.price

\* ============================================ claims: structure, further
\* the conditions _determine_trend tests, over the counters it is given
BullishCondition ==
    structure.higher_highs >= analyzer - 1 /\ LastStep(PricesOf(LOW), 1)
BearishCondition ==
    structure.lower_lows >= analyzer - 1 /\ LastStep(PricesOf(HIGH), -1)

\* C27 - For min_swings_for_trend >= 2 the bullish and the bearish condition
\* never hold together: a sufficient higher-highs run puts the last high
\* above its predecessor and a sufficient lower-lows run puts the last low
\* below its predecessor.  So with enough swings the bearish condition alone
\* decides BEARISH: testing bullish first changes nothing.
C27_ConditionsExclusive ==
    (outcome = "analyzed" /\ analyzer >= 2) =>
        /\ ~(BullishCondition /\ BearishCondition)
        /\ structure.higher_highs >= analyzer - 1 => LastStep(PricesOf(HIGH), 1)
        /\ structure.lower_lows >= analyzer - 1 => LastStep(PricesOf(LOW), -1)
        /\ (EnoughSwings /\ BearishCondition) => structure.trend = BEARISH

\* C27 witness: min_swings_for_trend = 2, a list whose earlier lows fall and
\* whose last low rises while its last high is a lower high: the lower-lows
\* run is 0, the bearish condition fails and the trend is RANGING.
C27_Witness ==
    /\ outcome = "analyzed"
    /\ analyzer = 2
    /\ EnoughSwings
    /\ Len(PricesOf(LOW)) >= 3
    /\ PricesOf(LOW)[2] < PricesOf(LOW)[1]
    /\ LastStep(PricesOf(LOW), 1)
    /\ LastStep(PricesOf(HIGH), -1)
    /\ structure.lower_lows = 0
    /\ structure.trend = RANGING

\* ==================================================== claims: event bus
\* how often a callback stands in a list of callbacks
Occurrences(callbacks, callback) ==
    Cardinality({k \in DOMAIN callbacks : callbacks[k] = callback})

\* the subscriptions of a callback held for one event type under a set of
\* keys: each subscription counted once
RECURSIVE SubscriptionsOf(_, _, _)
SubscriptionsOf(for_type, keys, callback) ==
    IF keys = {} THEN 0
    ELSE LET k == CHOOSE x \in keys : TRUE
         IN Occurrences(for_type[k], callback)
            + SubscriptionsOf(for_type, keys \ {k}, callback)

\* the subscriptions of a callback that an event is for: those of the
\* event's type held for the event's account or for all accounts
SubscriptionsFor(b, event, callback) ==
    LET for_type == Get(b.subscribers, event.event_type, EmptyDict)
    IN SubscriptionsOf(for_type,
                       {event.account_id, AllAccountsKey} \cap DOMAIN for_type,
                       callback)

\* a step that is a publish call
PublishStep == bus'.events_published = bus.events_published + 1

\* what a publish step owes the subscriptions the event is for: each invoked
\* once, raising or not; their number returned; events_delivered raised by
\* the number that returned normally
DeliveredEachOnce ==
    /\ \A callback \in Callbacks :
           Occurrences(delivery'.invoked, callback)
               = SubscriptionsFor(bus, delivery'.event, callback)
    /\ delivery'.returned = Len(delivery'.invoked)
    /\ bus'.events_delivered - bus.events_delivered
           = Cardinality({k \in DOMAIN delivery'.invoked : ~Raises(delivery'.invoked[k])})

\* C30 - Event bus delivery: every publish call invokes exactly the callbacks
\* subscribed to the event's type for the event's account or for all
\* accounts, each subscription once, a raising callback included and the
\* callbacks after it too; it returns their number; events_delivered grows by
\* the number of them that returned normally; subscribers of another type or
\* another account are not invoked.
C30_BusDelivery == [][PublishStep => DeliveredEachOnce]_vars

\* The same holds of every publish call whose event names an account other
\* than the key of the all-accounts subscribers; an event for that key has
\* each all-accounts subscriber invoked and counted twice.
DeliveryToNamedAccounts ==
    [][PublishStep =>
          IF delivery'.event.account_id # AllAccountsKey
          THEN DeliveredEachOnce
          ELSE /\ \A callback \in Callbacks :
                      Occurrences(delivery'.invoked, callback)
                          = 2 * SubscriptionsFor(bus, delivery'.event, callback)
               /\ delivery'.returned = Len(delivery'.invoked)]_vars

\* a raising callback invoked ahead of one that returned normally, for an
\* event of a named account
RaisingThenDelivered ==
    /\ outcome = "published"
    /\ delivery.event.account_id # AllAccountsKey
    /\ delivery.returned = 2
    /\ Raises(delivery.invoked[1])
    /\ ~Raises(delivery.invoked[2])
    /\ bus.events_delivered = 1

====
